---------------------------- MODULE Spec2Model ----------------------------
(***************************************************************************)
(* Model of the image archive: the Directory manager of src/imagearchive.py *)
(* (remove_content, Directory.empty_some, empty_all, fetch_all_from,        *)
(* fetch_some_from, create_tar_archive, remove_tar_archive) over an         *)
(* explicit file-system tree, and the Author table of the metadata schema.  *)
(*                                                                          *)
(* A file name is a sequence of string segments (<<"note", ".txt">>), so    *)
(* that the f-string of create_tar_archive is sequence concatenation and    *)
(* str.endswith(".tar.gz") is a test of the last segment.  A path is a      *)
(* sequence of names from the file-system root.                             *)
(***************************************************************************)
EXTENDS Integers, Sequences, FiniteSets, TLC

VARIABLES
    fs,            \* the file system: existing path -> node
    locked,        \* paths whose unlink / rmdir is denied by the OS
    path_created,  \* distutils.dir_util._path_created, process-wide
    now,           \* the wall clock, in whole seconds
    authors,       \* rows of table 'author'
    steps,         \* number of calls made so far
    last           \* the call that produced the current state

vars == <<fs, locked, path_created, now, authors, steps, last>>

(***************************** bounds **************************************)
MaxSteps == 3      \* calls per run
MaxTime == 1       \* last second of the clock

(***************************** names and paths *****************************)
Dot == <<".">>
DotDot == <<"..">>
TarGz == ".tar.gz"

nD == <<"d">>
nS == <<"s">>
nIn == <<"in">>
nA == <<"a">>
nG == <<"g">>
nK == <<"k">>
nF == <<"f">>
nSub == <<"sub">>
nOld == <<"old", TarGz>>
nMissing == <<"missing">>

Root == <<>>
pD == <<nD>>
pIn == <<nD, nIn>>
pS == <<nS>>

\* The Directory objects constructed by the program (abspath of each).
Directories == {pD, pIn, pS}

IsPrefix(p, q) == Len(p) <= Len(q) /\ SubSeq(q, 1, Len(p)) = p
Parent(p) == IF p = Root THEN Root ELSE SubSeq(p, 1, Len(p) - 1)
basename(p) == IF p = Root THEN <<>> ELSE p[Len(p)]
endswith(name, suffix) == name # <<>> /\ name[Len(name)] = suffix

(***************************** nodes ***************************************)
EmptyTree == [p \in {} |-> 0]
NoData == [raw |-> "", top |-> <<>>, tree |-> EmptyTree]
Raw(s) == [raw |-> s, top |-> <<>>, tree |-> EmptyTree]
DirNode == [kind |-> "dir", data |-> NoData, target |-> Root]
FileNode(d) == [kind |-> "file", data |-> d, target |-> Root]
LinkNode(t) == [kind |-> "link", data |-> NoData, target |-> t]

Drop(f, R) == [p \in DOMAIN f \ R |-> f[p]]
Put(f, p, n) == [q \in DOMAIN f \cup {p} |-> IF q = p THEN n ELSE f[q]]
Sub(f, p) == {q \in DOMAIN f : IsPrefix(p, q)}
Desc(f, p) == Sub(f, p) \ {p}
Children(f, p) == {q \in DOMAIN f : Len(q) = Len(p) + 1 /\ IsPrefix(p, q)}

\* One hop through a symbolic link (link targets are never links here).
Follow(f, p) == IF p \in DOMAIN f /\ f[p].kind = "link" THEN f[p].target ELSE p

\* OS path resolution of the components `rest' from location `cur': every
\* component but the last is followed through links and must be a directory.
RECURSIVE Walk(_, _, _)
Walk(f, cur, rest) ==
    IF rest = <<>> THEN [err |-> "", at |-> cur]
    ELSE LET here == Follow(f, cur)
             c == Head(rest)
         IN  IF here \notin DOMAIN f THEN [err |-> "ENOENT", at |-> cur]
             ELSE IF f[here].kind # "dir" THEN [err |-> "ENOTDIR", at |-> cur]
             ELSE Walk(f, IF c = Dot THEN here
                          ELSE IF c = DotDot THEN Parent(here)
                          ELSE Append(here, c), Tail(rest))

\* os.path.join(abspath, relative_path); '' has no components and joins to
\* "abspath/", which the OS resolves as "abspath/.".
join(abspath, rel) == abspath \o (IF rel = <<>> THEN <<Dot>> ELSE rel)

lexists(f, comps) ==
    LET w == Walk(f, Root, comps) IN w.err = "" /\ w.at \in DOMAIN f
KindOf(f, comps) ==
    LET w == Walk(f, Root, comps)
    IN  IF w.err # "" \/ Follow(f, w.at) \notin DOMAIN f THEN "none"
        ELSE f[Follow(f, w.at)].kind
isfile(f, comps) == KindOf(f, comps) = "file"
isdir(f, comps) == KindOf(f, comps) = "dir"
islink(f, comps) ==
    LET w == Walk(f, Root, comps)
    IN  w.err = "" /\ w.at \in DOMAIN f /\ f[w.at].kind = "link"
\* The real location the path names, its last component followed too.
RealOf(f, comps) == Follow(f, Walk(f, Root, comps).at)


(***************************** removal **************************************)
\* os.unlink(path): the entry itself goes, a link is not followed.
unlink(f, comps) ==
    LET w == Walk(f, Root, comps)
    IN  IF w.err = "ENOTDIR" THEN [fs |-> f, exc |-> "NotADirectoryError"]
        ELSE IF w.err = "ENOENT" \/ w.at \notin DOMAIN f
             THEN [fs |-> f, exc |-> "FileNotFoundError"]
        ELSE IF f[w.at].kind = "dir" THEN [fs |-> f, exc |-> "IsADirectoryError"]
        ELSE IF w.at \in locked THEN [fs |-> f, exc |-> "PermissionError"]
        ELSE [fs |-> Drop(f, {w.at}), exc |-> ""]

\* shutil.rmtree(p) on a real directory p.  With nothing locked below, the
\* whole tree goes.  Otherwise it raises at the first denied entry, in the
\* order the OS lists entries: any set of entries that holds no locked entry
\* and no directory above one, and that holds a directory only with all its
\* content, may have gone by then.
rmtree(f, p) ==
    LET all == Sub(f, p)
        stuck == {q \in all : \E l \in locked \cap all : IsPrefix(q, l)}
    IN  IF stuck = {} THEN {[fs |-> Drop(f, all), exc |-> ""]}
        ELSE {[fs |-> Drop(f, R), exc |-> "PermissionError"] :
                R \in {X \in SUBSET (all \ stuck) :
                         \A q \in X : Sub(f, q) \subseteq X}}

\* RemoveEntry without the os.path.islink test of line 23: a link to a
\* directory reaches shutil.rmtree, which refuses a symbolic link, and the
\* failure is printed.
RemoveEntry_NoIslink(f, file_path) ==
    IF isfile(f, file_path) THEN {unlink(f, file_path).fs}
    ELSE IF isdir(f, file_path) /\ ~islink(f, file_path)
    THEN {o.fs : o \in rmtree(f, RealOf(f, file_path))}
    ELSE {f}

\* Lines 21-28, the body of the loop for one entry: failures are printed.
RemoveEntry(f, file_path) ==
    IF isfile(f, file_path) \/ islink(f, file_path)
    THEN {unlink(f, file_path).fs}
    ELSE IF isdir(f, file_path)
    THEN {o.fs : o \in rmtree(f, RealOf(f, file_path))}
    ELSE {f}

RECURSIVE RemoveListed(_, _, _)
RemoveListed(F, absolute_path, filenames) ==
    IF filenames = {} THEN F
    ELSE LET filename == CHOOSE n \in filenames : TRUE
         IN  RemoveListed(
                 UNION {RemoveEntry(f, Append(absolute_path, filename)) : f \in F},
                 absolute_path, filenames \ {filename})

\* os.listdir(path): the names in the directory, or the error raised.
listdir(f, comps) ==
    LET w == Walk(f, Root, comps)
        t == Follow(f, w.at)
    IN  IF w.err = "ENOTDIR" THEN [err |-> "NotADirectoryError", names |-> {}]
        ELSE IF w.err = "ENOENT" \/ t \notin DOMAIN f
             THEN [err |-> "FileNotFoundError", names |-> {}]
        ELSE IF f[t].kind # "dir" THEN [err |-> "NotADirectoryError", names |-> {}]
        ELSE [err |-> "", names |-> {basename(c) : c \in Children(f, t)}]

\* remove_content as shutil.rmtree(absolute_path): the directory goes with
\* its content.
remove_content_Rmtree(f, absolute_path) ==
    LET ls == listdir(f, absolute_path)
    IN  IF ls.err = "" THEN
            {[fs |-> o.fs, exc |-> ""] : o \in rmtree(f, RealOf(f, absolute_path))}
        ELSE IF ls.err = "NotADirectoryError" THEN {unlink(f, absolute_path)}
        ELSE {[fs |-> f, exc |-> ls.err]}

\* remove_content(absolute_path): the possible outcomes [fs, exc].
remove_content(f, absolute_path) ==
    LET ls == listdir(f, absolute_path)
    IN  IF ls.err = "" THEN
            {[fs |-> g, exc |-> ""] : g \in RemoveListed({f}, absolute_path, ls.names)}
        ELSE IF ls.err = "NotADirectoryError" THEN {unlink(f, absolute_path)}
        ELSE {[fs |-> f, exc |-> ls.err]}

(***************************** Directory ************************************)
\* Directory.__init__: Path(abspath).mkdir(parents=True, exist_ok=True).
RECURSIVE mkdir_parents(_, _)
mkdir_parents(f, abspath) ==
    IF abspath \in DOMAIN f THEN f
    ELSE Put(mkdir_parents(f, Parent(abspath)), abspath, DirNode)

\* A 'content' argument: an iterable of relative paths, or a value that is
\* not iterable (42).
NotIterable == [iter |-> FALSE, items |-> <<>>]
Iterable(items) == [iter |-> TRUE, items |-> items]

\* The loop of empty_some over the remaining items; an exception ends it.
RECURSIVE EmptyEach(_, _, _)
EmptyEach(O, abspath, items) ==
    IF items = <<>> THEN O
    ELSE EmptyEach(
             UNION {IF o.exc # "" THEN {o}
                    ELSE remove_content(o.fs, join(abspath, Head(items))) : o \in O},
             abspath, Tail(items))

\* empty_some with the TypeError swallowed instead of raised as ValueError.
empty_some_Swallow(f, abspath, content) ==
    IF ~content.iter THEN {[fs |-> f, exc |-> ""]}
    ELSE EmptyEach({[fs |-> f, exc |-> ""]}, abspath, content.items)

\* Directory.empty_some(content): the possible outcomes [fs, exc].
empty_some(f, abspath, content) ==
    IF ~content.iter THEN {[fs |-> f, exc |-> "ValueError"]}
    ELSE EmptyEach({[fs |-> f, exc |-> ""]}, abspath, content.items)

\* Directory.empty_all(): the possible outcomes [fs, exc].
empty_all(f, abspath) == remove_content(f, abspath)

(***************************** copying ***************************************)
\* open(path, 'wb') and the write of `data': the file is created or truncated,
\* through a symbolic link at the last component.
write_file(f, comps, data) ==
    LET w == Walk(f, Root, comps)
        t == Follow(f, w.at)
    IN  IF w.err = "ENOTDIR" THEN [fs |-> f, exc |-> "NotADirectoryError"]
        ELSE IF w.err = "ENOENT" THEN [fs |-> f, exc |-> "FileNotFoundError"]
        ELSE IF t \in DOMAIN f /\ f[t].kind = "dir"
             THEN [fs |-> f, exc |-> "IsADirectoryError"]
        ELSE IF t # Root /\ ~(Parent(t) \in DOMAIN f /\ f[Parent(t)].kind = "dir")
             THEN [fs |-> f, exc |-> "FileNotFoundError"]
        ELSE [fs |-> Put(f, t, FileNode(data)), exc |-> ""]

\* os.mkdir(path).
mkdir(f, comps) ==
    LET w == Walk(f, Root, comps)
    IN  IF w.err = "ENOTDIR" THEN [fs |-> f, exc |-> "NotADirectoryError"]
        ELSE IF w.err = "ENOENT" THEN [fs |-> f, exc |-> "FileNotFoundError"]
        ELSE IF w.at \in DOMAIN f THEN [fs |-> f, exc |-> "FileExistsError"]
        ELSE [fs |-> Put(f, w.at, DirNode), exc |-> ""]

\* distutils.dir_util.mkpath, the loop over the directories to create below
\* `head': one that _path_created remembers is skipped without a look at
\* the disk.
RECURSIVE mkpath_tails(_, _, _, _)
mkpath_tails(f, pc, head, tails) ==
    IF tails = <<>> THEN [fs |-> f, pc |-> pc, exc |-> ""]
    ELSE LET h == Append(head, Head(tails))
             m == mkdir(f, h)
         IN  IF h \in pc THEN mkpath_tails(f, pc, h, Tail(tails))
             ELSE IF m.exc # "" /\ ~(m.exc = "FileExistsError" /\ isdir(f, h))
             THEN [fs |-> f, pc |-> pc, exc |-> "DistutilsFileError"]
             ELSE mkpath_tails(m.fs, pc \cup {h}, h, Tail(tails))

\* The deepest ancestor of `name' that is a directory (the while loop of mkpath).
RECURSIVE deepest_dir(_, _)
deepest_dir(f, name) ==
    IF name = Root \/ isdir(f, Parent(name)) THEN Parent(name)
    ELSE deepest_dir(f, Parent(name))

\* distutils.dir_util.mkpath(name).
mkpath(f, pc, name) ==
    IF isdir(f, name) \/ name = Root THEN [fs |-> f, pc |-> pc, exc |-> ""]
    ELSE IF name \in pc THEN [fs |-> f, pc |-> pc, exc |-> ""]
    ELSE LET head == deepest_dir(f, name)
         IN  mkpath_tails(f, pc, head, SubSeq(name, Len(head) + 1, Len(name)))

\* distutils.file_util.copy_file(src, dst) with _copy_file_contents: an
\* existing destination is unlinked, then written anew.
copy_file(f, src, dst) ==
    LET to == IF isdir(f, dst) THEN Append(dst, basename(src)) ELSE dst
        gone == IF KindOf(f, to) # "none" THEN unlink(f, to) ELSE [fs |-> f, exc |-> ""]
        made == write_file(gone.fs, to, f[RealOf(f, src)].data)
    IN  IF ~isfile(f, src) THEN [fs |-> f, exc |-> "DistutilsFileError"]
        ELSE IF gone.exc # "" THEN [fs |-> f, exc |-> "DistutilsFileError"]
        ELSE IF made.exc # "" THEN [fs |-> gone.fs, exc |-> "DistutilsFileError"]
        ELSE made

\* distutils.dir_util.copy_tree(src, dst): the possible outcomes
\* [fs, pc, exc]; the names are copied in the order os.listdir gives them,
\* which the OS chooses, and the first failure ends the copy.
RECURSIVE copy_tree(_, _, _, _)
RECURSIVE copy_names(_, _, _, _)
copy_names(o, src, dst, names) ==
    IF names = {} \/ o.exc # "" THEN {o}
    ELSE UNION {
        LET src_name == Append(src, n)
            dst_name == Append(dst, n)
            after == IF isdir(o.fs, src_name)
                     THEN copy_tree(o.fs, o.pc, src_name, dst_name)
                     ELSE LET c == copy_file(o.fs, src_name, dst_name)
                          IN  {[fs |-> c.fs, pc |-> o.pc, exc |-> c.exc]}
        IN  UNION {copy_names(a, src, dst, names \ {n}) : a \in after}
        : n \in names}

copy_tree(f, pc, src, dst) ==
    LET ls == listdir(f, src)
        mk == mkpath(f, pc, dst)
    IN  IF ~isdir(f, src) \/ ls.err # ""
        THEN {[fs |-> f, pc |-> pc, exc |-> "DistutilsFileError"]}
        ELSE IF mk.exc # "" THEN {mk}
        ELSE copy_names(mk, src, dst, ls.names)

\* Directory.fetch_all_from(src_directory): the possible outcomes [fs, pc, exc].
fetch_all_from(f, pc, abspath, src_abspath) == copy_tree(f, pc, src_abspath, abspath)

\* shutil.copy(src, dst): into dst when dst is a directory; the source is
\* opened first, the destination is then opened for writing.
shutil_copy(f, src, dst) ==
    LET to == IF isdir(f, dst) THEN Append(dst, basename(src)) ELSE dst
        k == KindOf(f, src)
    IN  IF k = "none" THEN [fs |-> f, exc |-> "FileNotFoundError"]
        ELSE IF k = "dir" THEN [fs |-> f, exc |-> "IsADirectoryError"]
        ELSE IF RealOf(f, src) = RealOf(f, to) THEN [fs |-> f, exc |-> "SameFileError"]
        ELSE write_file(f, to, f[RealOf(f, src)].data)

\* The loop of fetch_some_from over the remaining items.
RECURSIVE FetchEach(_, _, _, _)
FetchEach(o, abspath, src_abspath, items) ==
    IF items = <<>> \/ o.exc # "" THEN o
    ELSE FetchEach(shutil_copy(o.fs, join(src_abspath, Head(items)), abspath),
                   abspath, src_abspath, Tail(items))

\* Directory.fetch_some_from(src_directory, content): the outcome [fs, exc].
fetch_some_from(f, abspath, src_abspath, content) ==
    IF ~content.iter THEN [fs |-> f, exc |-> "ValueError"]
    ELSE FetchEach([fs |-> f, exc |-> ""], abspath, src_abspath, content.items)

(***************************** archiving *************************************)
\* datetime.now().strftime('%F-%H%M%S'): one segment for each second.
timestamp(t) == <<ToString(t)>>

\* f"{timestamp}-{directory_basename}" and f"...{directory_basename}.tar.gz".
arcname(t, abspath) == timestamp(t) \o <<"-">> \o basename(abspath)
tar_archive_name(t, abspath) == arcname(t, abspath) \o <<TarGz>>

\* tar.add(name, arcname), recursive: the members, by path below the
\* archive's top entry.  The archive being written is skipped
\* (os.path.abspath(name) == self.name); a symbolic link is stored as a link.
tar_add(f, name, tar_name) ==
    [r \in {SubSeq(q, Len(name) + 1, Len(q)) : q \in Sub(f, name) \ {tar_name}}
       |-> f[name \o r]]

TarData(top, tree) == [raw |-> "tgz", top |-> top, tree |-> tree]

\* Directory.create_tar_archive(outdir): the outcome [fs, exc, ret].  outdir
\* is the abspath of a Directory, or None (<<Dot>> here, which has no abspath).
None == <<Dot>>
create_tar_archive(f, t, abspath, outdir) ==
    LET tar_archive_abspath ==
            Append(IF outdir = None THEN abspath ELSE outdir, tar_archive_name(t, abspath))
        top == arcname(t, abspath)
        opened == write_file(f, tar_archive_abspath, TarData(top, EmptyTree))
        self_name == RealOf(opened.fs, tar_archive_abspath)
    IN  IF opened.exc # "" THEN [fs |-> f, exc |-> opened.exc, ret |-> Root]
        ELSE IF ~lexists(opened.fs, abspath)
             THEN [fs |-> opened.fs, exc |-> "FileNotFoundError", ret |-> Root]
        ELSE [fs |-> Put(opened.fs, self_name,
                         FileNode(TarData(top, tar_add(opened.fs, abspath, self_name)))),
              exc |-> "", ret |-> tar_archive_abspath]

\* Directory.remove_tar_archive(): the possible outcomes [fs, exc]; the
\* entries are visited in the order os.listdir gives them, and the first
\* os.remove that fails ends the call.
RECURSIVE remove_each_tar(_, _, _)
remove_each_tar(f, abspath, items) ==
    IF items = {} THEN {[fs |-> f, exc |-> ""]}
    ELSE UNION {
        LET r == IF endswith(item, TarGz) THEN unlink(f, Append(abspath, item))
                 ELSE [fs |-> f, exc |-> ""]
        IN  IF r.exc # "" THEN {r} ELSE remove_each_tar(r.fs, abspath, items \ {item})
        : item \in items}

remove_tar_archive(f, abspath) ==
    LET ls == listdir(f, abspath)
    IN  IF ls.err # "" THEN {[fs |-> f, exc |-> ls.err]}
        ELSE remove_each_tar(f, abspath, ls.names)

(***************************** table 'author' *******************************)
\* A column value: a string, or NULL (the columns are declared without
\* nullable=False).
NULL == [null |-> TRUE, v |-> ""]
Str(s) == [null |-> FALSE, v |-> s]
AuthorRow(id, name, email, organization) ==
    [author_id |-> id, name |-> name, email |-> email, organization |-> organization]
NoRow == AuthorRow(0, NULL, NULL, NULL)

\* Equality as a UNIQUE index of the configured stores (sqlite, mysql)
\* decides it: NULL equals nothing, itself included.
sql_equal(a, b) == ~a.null /\ ~b.null /\ a.v = b.v

\* UniqueConstraint('name', 'organization'): row r collides with a stored row.
uix_author_name_and_organization(rows, r) ==
    \E x \in rows : /\ x.author_id # r.author_id
                    /\ sql_equal(x.name, r.name)
                    /\ sql_equal(x.organization, r.organization)

\* author_id = Column(Integer(), primary_key=True): the store assigns the
\* next integer.
next_author_id(rows) ==
    IF rows = {} THEN 1
    ELSE 1 + CHOOSE m \in {x.author_id : x \in rows} :
                 \A x \in rows : x.author_id <= m

(***************************** the program's state **************************)
\* The disk once every Directory is constructed (Directory.__init__).
Constructed ==
    mkdir_parents(mkdir_parents(mkdir_parents([p \in {Root} |-> DirNode], pD), pIn), pS)

\* Entries that may lie in the directories before the first call.
Universe ==
    [p \in {<<nS, nA>>, <<nS, nSub>>, <<nS, nSub, nF>>, <<nD, nA>>, <<nD, nK>>,
            <<nD, nIn, nG>>, <<nD, nOld>>} |->
        CASE p = <<nS, nA>> -> FileNode(Raw("hello"))
          [] p = <<nS, nSub>> -> DirNode
          [] p = <<nS, nSub, nF>> -> FileNode(Raw("x"))
          [] p = <<nD, nA>> -> FileNode(Raw("old"))
          [] p = <<nD, nK>> -> LinkNode(<<nS, nSub>>)
          [] p = <<nD, nIn, nG>> -> FileNode(Raw("x"))
          [] p = <<nD, nOld>> -> DirNode]

Populated(X) ==
    [p \in DOMAIN Constructed \cup X |->
        IF p \in DOMAIN Constructed THEN Constructed[p] ELSE Universe[p]]

NoCall == [op |-> "", self |-> Root, other |-> None, content |-> Iterable(<<>>),
           exc |-> "", pre |-> Constructed, ret |-> Root, at |-> 0,
           row |-> NoRow, rows |-> {}]

InitWith(X, L) ==
    /\ fs = Populated(X)
    /\ locked = L
    /\ path_created = {}
    /\ now = 0
    /\ authors = {}
    /\ steps = 0
    /\ last = [NoCall EXCEPT !.pre = Populated(X)]

\* A call is made: it is counted, and `last' records it with the state it
\* was made in.
CallOn(op, self, other, content, exc, ret, row) ==
    /\ steps < MaxSteps
    /\ steps' = steps + 1
    /\ last' = [op |-> op, self |-> self, other |-> other, content |-> content,
                exc |-> exc, pre |-> fs, ret |-> ret, at |-> now,
                row |-> row, rows |-> authors]

Call(op, self, other, content, exc, ret) ==
    CallOn(op, self, other, content, exc, ret, NoRow)

(***************************** actions **************************************)
EmptySome(self, content) ==
    /\ \E o \in empty_some(fs, self, content) :
          /\ fs' = o.fs
          /\ Call("empty_some", self, None, content, o.exc, Root)
    /\ UNCHANGED <<locked, path_created, now, authors>>

EmptyAll(self) ==
    /\ \E o \in empty_all(fs, self) :
          /\ fs' = o.fs
          /\ Call("empty_all", self, None, Iterable(<<>>), o.exc, Root)
    /\ UNCHANGED <<locked, path_created, now, authors>>

FetchAllFrom(self, src) ==
    /\ \E o \in fetch_all_from(fs, path_created, self, src) :
          /\ fs' = o.fs
          /\ path_created' = o.pc
          /\ Call("fetch_all_from", self, src, Iterable(<<>>), o.exc, Root)
    /\ UNCHANGED <<locked, now, authors>>

FetchSomeFrom(self, src, content) ==
    /\ LET o == fetch_some_from(fs, self, src, content)
       IN  /\ fs' = o.fs
           /\ Call("fetch_some_from", self, src, content, o.exc, Root)
    /\ UNCHANGED <<locked, path_created, now, authors>>

CreateTarArchive(self, outdir) ==
    /\ LET o == create_tar_archive(fs, now, self, outdir)
       IN  /\ fs' = o.fs
           /\ Call("create_tar_archive", self, outdir, Iterable(<<>>), o.exc, o.ret)
    /\ UNCHANGED <<locked, path_created, now, authors>>

RemoveTarArchive(self) ==
    /\ \E o \in remove_tar_archive(fs, self) :
          /\ fs' = o.fs
          /\ Call("remove_tar_archive", self, None, Iterable(<<>>), o.exc, Root)
    /\ UNCHANGED <<locked, path_created, now, authors>>

\* A second passes on the wall clock.
Tick ==
    /\ now < MaxTime
    /\ now' = now + 1
    /\ UNCHANGED <<fs, locked, path_created, authors, steps, last>>

\* session.add(Author(...)); session.commit(): INSERT INTO author.
InsertAuthor(name, email, organization) ==
    LET r == AuthorRow(next_author_id(authors), name, email, organization)
        bad == uix_author_name_and_organization(authors, r)
    IN  /\ authors' = IF bad THEN authors ELSE authors \cup {r}
        /\ CallOn("insert_author", Root, None, Iterable(<<>>),
                  IF bad THEN "IntegrityError" ELSE "", Root, r)
        /\ UNCHANGED <<fs, locked, path_created, now>>

\* author.organization = ...; session.commit(): UPDATE author.
UpdateAuthor(old, organization) ==
    LET r == [old EXCEPT !.organization = organization]
        bad == uix_author_name_and_organization(authors, r)
    IN  /\ old \in authors
        /\ authors' = IF bad THEN authors ELSE (authors \ {old}) \cup {r}
        /\ CallOn("update_author", Root, None, Iterable(<<>>),
                  IF bad THEN "IntegrityError" ELSE "", Root, r)
        /\ UNCHANGED <<fs, locked, path_created, now>>

\* session.delete(author); session.commit(): DELETE FROM author.
DeleteAuthor(old) ==
    /\ old \in authors
    /\ authors' = authors \ {old}
    /\ CallOn("delete_author", Root, None, Iterable(<<>>), "", Root, old)
    /\ UNCHANGED <<fs, locked, path_created, now>>

(***************************** specifications *******************************)
\* The removal calls on Directory d, over every kind of entry, with and
\* without a denied removal.
EmptyPaths == {<<>>, <<Dot>>, <<nA>>, <<nK>>, <<nIn>>, <<nMissing>>}
EmptyPairs == {<<nA>>, <<nIn>>, <<nMissing>>}
EmptyContents ==
    {NotIterable, Iterable(<<>>)} \cup {Iterable(<<p>>) : p \in EmptyPaths}
        \cup {Iterable(<<p, q>>) : p, q \in EmptyPairs}

InitEmpty ==
    \E X \in SUBSET {<<nD, nA>>, <<nD, nK>>, <<nD, nIn, nG>>} :
    \E L \in {{}} \cup {{l} : l \in X \cup {pIn}} :
        InitWith(X \cup {<<nS, nSub>>, <<nS, nSub, nF>>}, L)

NextEmpty ==
    \/ \E content \in EmptyContents : EmptySome(pD, content)
    \/ EmptyAll(pD)

SpecEmpty == InitEmpty /\ [][NextEmpty]_vars

\* The copying calls from Directory s into Directory d, after any calls on d.
FetchContents ==
    {NotIterable} \cup {Iterable(<<p>>) : p \in {<<nA>>, <<nSub>>, <<nSub, nF>>}}
        \cup {Iterable(<<<<nA>>, <<nSub, nF>>>>)}

InitFetch ==
    \E X \in SUBSET {<<nS, nSub>>, <<nS, nSub, nF>>, <<nD, nA>>} :
        /\ <<nS, nSub, nF>> \in X => <<nS, nSub>> \in X
        /\ InitWith(X \cup {<<nS, nA>>}, {})

NextFetch ==
    \/ FetchAllFrom(pD, pS)
    \/ \E content \in FetchContents : FetchSomeFrom(pD, pS, content)
    \/ EmptyAll(pD)
    \/ \E content \in {NotIterable, Iterable(<<<<nSub>>>>)} : EmptySome(pD, content)
    \/ CreateTarArchive(pD, None)
    \/ RemoveTarArchive(pD)
    \/ Tick

SpecFetch == InitFetch /\ [][NextFetch]_vars

\* The archive calls on the nested Directories d and d/in, within one second
\* and across seconds.
InitTar ==
    \E X \in SUBSET {<<nD, nA>>, <<nD, nIn, nG>>, <<nD, nOld>>} : InitWith(X, {})

NextTar ==
    \/ \E self \in {pD, pIn}, outdir \in {None, pIn, pS} : CreateTarArchive(self, outdir)
    \/ RemoveTarArchive(pD)
    \/ Tick

SpecTar == InitTar /\ [][NextTar]_vars

\* Every call, on every Directory, within one second.
Init ==
    \E X \in SUBSET {<<nD, nK>>} :
        InitWith(X \cup {<<nS, nA>>, <<nS, nSub>>, <<nS, nSub, nF>>, <<nD, nIn, nG>>}, {})

Next ==
    \/ \E self \in Directories : EmptyAll(self)
    \/ \E self \in Directories,
          content \in {Iterable(<<p>>) : p \in {<<>>, <<Dot>>, <<nIn>>, <<nK>>}} :
          EmptySome(self, content)
    \/ \E self \in {pD, pIn} : FetchAllFrom(self, pS)
    \/ \E self \in {pD, pIn} : FetchSomeFrom(self, pS, Iterable(<<<<nA>>>>))
    \/ \E self \in Directories : CreateTarArchive(self, None)
    \/ \E self \in Directories : RemoveTarArchive(self)

Spec == Init /\ [][Next]_vars

\* The store of Author records.
Names == {Str("A"), NULL}
Organizations == {Str("X"), Str("Y"), NULL}

InitDB == InitWith({}, {})

NextDB ==
    \/ \E name \in Names, organization \in Organizations :
          InsertAuthor(name, Str("e"), organization)
    \/ \E old \in authors, organization \in Organizations :
          UpdateAuthor(old, organization)
    \/ \E old \in authors : DeleteAuthor(old)

SpecDB == InitDB /\ [][NextDB]_vars

(***************************** claims: removal *******************************)
\* The entry a relative path of one or more names denotes under a Directory.
Named(abspath, rel) == abspath \o rel
\* The content below an entry, by relative path.
TreeAt(f, p) == [r \in {SubSeq(q, Len(p) + 1, Len(q)) : q \in Sub(f, p)} |-> f[p \o r]]
TopEntries(f, abspath) == Children(f, abspath)
\* The removal of top-level entry c is denied somewhere in it.
RemovalFails(f, c) == Sub(f, c) \cap locked # {}

\* C1: after D.empty_some([p]) returns, for distinct entries p and q of D
\* (files, symbolic links or subdirectories), p no longer exists and q
\* still exists with its content unchanged.
C1_SelectiveDelete ==
    \A p, q \in TopEntries(last.pre, last.self) :
        (/\ last.op = "empty_some"
         /\ last.exc = ""
         /\ last.content = Iterable(<<<<basename(p)>>>>)
         /\ p # q)
        => /\ p \notin DOMAIN fs
           /\ q \in DOMAIN fs
           /\ TreeAt(fs, q) = TreeAt(last.pre, q)

\* C2: empty_all() on an existing directory returns without raising, every
\* top-level entry whose removal is not denied is gone with all its
\* content, and with no denied removal the directory lists empty.
C2_BulkDelete ==
    (last.op = "empty_all" /\ isdir(last.pre, last.self))
    => /\ last.exc = ""
       /\ \A c \in TopEntries(last.pre, last.self) :
             ~RemovalFails(last.pre, c) => Sub(fs, c) = {}
       /\ (\A c \in TopEntries(last.pre, last.self) : ~RemovalFails(last.pre, c))
             => listdir(fs, last.self) = [err |-> "", names |-> {}]

\* C2's case: empty_all met a file, a link and a subdirectory, one removal
\* was denied, and the others are gone.
C2_Witness ==
    /\ last.op = "empty_all"
    /\ last.exc = ""
    /\ {last.pre[c].kind : c \in TopEntries(last.pre, pD)} = {"file", "link", "dir"}
    /\ last.pre[pIn].kind = "dir" /\ Desc(last.pre, pIn) # {}
    /\ TopEntries(fs, pD) = {<<nD, nA>>}
    /\ locked = {<<nD, nA>>}

\* C9: empty_some([p1, ..., pn]) does not raise when the removal of one
\* named path fails, and every named file whose removal does not fail is
\* removed, wherever it stands in the list.
C9_SomeTolerant ==
    (last.op = "empty_some" /\ last.content.iter)
    => /\ last.exc = ""
       /\ \A j \in DOMAIN last.content.items :
            LET p == Named(last.self, last.content.items[j])
            IN  (p \in DOMAIN last.pre /\ last.pre[p].kind = "file" /\ p \notin locked)
                  => p \notin DOMAIN fs

(***************************** claims: copying *******************************)
FilesBelow(f, abspath) == {q \in Desc(f, abspath) : f[q].kind = "file"}
Rel(abspath, q) == SubSeq(q, Len(abspath) + 1, Len(q))

\* C3: empty_some(v) and fetch_some_from(src, v) with a value v that is not
\* iterable fail with ValueError and leave the file system unchanged.
C3_InvalidArgument ==
    (last.op \in {"empty_some", "fetch_some_from"} /\ ~last.content.iter)
    => (last.exc = "ValueError" /\ fs = last.pre)

\* C3's case: fetch_some_from was handed 42 while the source held entries to
\* copy and the destination, filled by an earlier call, entries to lose.
C3_Witness ==
    /\ last.op = "fetch_some_from"
    /\ ~last.content.iter
    /\ last.exc = "ValueError"
    /\ TopEntries(fs, pS) # {}
    /\ <<nD, nSub, nF>> \in DOMAIN fs

\* C5: whatever calls came before, fetch_all_from(S) completes and D then
\* holds, for every file at relative path r of S, a file at r with the same
\* content.
C5_CopyFidelity ==
    last.op = "fetch_all_from"
    => /\ last.exc = ""
       /\ \A q \in FilesBelow(fs, last.other) :
            LET r == Rel(last.other, q)
            IN  /\ last.self \o r \in DOMAIN fs
                /\ fs[last.self \o r] = fs[q]

\* C6: fetch_some_from(S, paths) copies each named entry of S, a file or a
\* directory, to its base name directly under D with the same content,
\* copies nothing else, and leaves S unchanged.
C6_SelectiveCopy ==
    (last.op = "fetch_some_from" /\ last.content.iter)
    => /\ \A j \in DOMAIN last.content.items :
            LET src == Named(last.other, last.content.items[j])
                dst == Append(last.self, basename(src))
            IN  src \in DOMAIN last.pre
                  => (dst \in DOMAIN fs /\ TreeAt(fs, dst) = TreeAt(last.pre, src))
       /\ \A c \in TopEntries(fs, last.self) \ TopEntries(last.pre, last.self) :
            \E j \in DOMAIN last.content.items :
                basename(c) = basename(last.content.items[j])
       /\ TreeAt(fs, last.other) = TreeAt(last.pre, last.other)

(***************************** claims: archives ******************************)
HasTarName(p) == endswith(basename(p), TarGz)

\* C4: create_tar_archive(outdir) creates <timestamp>-<basename>.tar.gz in
\* the output directory (the directory itself by default), returns its
\* path, and the archive holds one top-level entry <timestamp>-<basename>
\* whose subtree is exactly the directory's content tree as it was when
\* the call was made.
C4_ArchiveLayout ==
    last.op = "create_tar_archive"
    => /\ last.exc = ""
       /\ last.ret = Append(IF last.other = None THEN last.self ELSE last.other,
                            tar_archive_name(last.at, last.self))
       /\ last.ret \in DOMAIN fs
       /\ fs[last.ret].kind = "file"
       /\ fs[last.ret].data.top = arcname(last.at, last.self)
       /\ fs[last.ret].data.tree = TreeAt(last.pre, last.self)

\* C10: after remove_tar_archive() no top-level entry of D, of any kind, has
\* a name ending in '.tar.gz', and every other top-level entry, with all
\* that lies below it, is unchanged.
C10_RemoveArchives ==
    last.op = "remove_tar_archive"
    => /\ \A c \in TopEntries(fs, last.self) : ~HasTarName(c)
       /\ \A c \in TopEntries(last.pre, last.self) :
            ~HasTarName(c) => (c \in DOMAIN fs /\ TreeAt(fs, c) = TreeAt(last.pre, c))

(***************************** claims: life cycle ****************************)
\* The Directories whose path lies inside no other Directory.
Outermost == {D \in Directories : \A E \in Directories : E = D \/ ~IsPrefix(E, D)}

SamePair(x, y) == x.name = y.name /\ x.organization = y.organization

\* C8: no two stored Authors have the same (name, organization) pair, and an
\* insert of an Author whose pair equals a stored Author's is rejected with
\* a constraint violation and leaves the stored Authors unchanged.
C8_AuthorUnique ==
    /\ \A x, y \in authors : x # y => ~SamePair(x, y)
    /\ (last.op = "insert_author" /\ \E x \in last.rows : SamePair(x, last.row))
          => (last.exc = "IntegrityError" /\ authors = last.rows)

\* What the constraint does keep: no two stored Authors whose name and
\* organization are both set have the same pair.
C8_SetPairsUnique ==
    \A x, y \in authors :
        (x # y /\ ~x.name.null /\ ~x.organization.null) => ~SamePair(x, y)

===========================================================================
